---- MODULE Spec2Model ----
(***************************************************************************)
(* Model of the FDDB-to-DynamoDB ingestion code:                           *)
(*   src/dynamo.py            do_batch_get and class DynamoDBTable         *)
(*   src/data_to_dynamodb.py  record building, run_scenario and __main__   *)
(* The store (Amazon DynamoDB behind boto3) is the environment: each call  *)
(* to it answers nondeterministically among the answers the service can    *)
(* give for the request.                                                   *)
(***************************************************************************)
EXTENDS Integers, Sequences, FiniteSets, TLC

(***************************************************************************)
(* Bounds                                                                  *)
(***************************************************************************)
\* keys that one table contributes to a batched get are drawn from 1..MaxKey
MaxKey == 2
\* longest list of entries the library's direct caller passes to write_batch
MaxEntries == 2
\* items the batch writer sends in one request (boto3 sends 25; scaled down)
FlushAmount == 1
\* most records the annotation files yield
MaxRecords == 3
\* the longest annotation file, in lines, and the longest line, in characters
MaxLines == 3
MaxLineLen == 2

(***************************************************************************)
(* Program constants                                                       *)
(***************************************************************************)
\* dynamo.py:28   max_tries = 5
max_tries == 5
\* dynamo.py:29   sleepy_time = 1
BaseSleep == 1
\* dynamo.py:50   min(sleepy_time * 2, 32)
SleepCap == 32

\* tables a batched get may address
GetTables == {"t1", "t2"}
GetKeys == 1..MaxKey

VARIABLES
    \* ---- do_batch_get ----
    dynamodb,      \* is the module global `dynamodb` bound to a resource
    batch_keys,    \* parameter / local batch_keys: table -> set of keys
    tries,         \* local tries
    sleepy_time,   \* local sleepy_time
    retrieved,     \* local retrieved: table -> list of items
    gpc,           \* position: "loop", "done" (returned), "raised"
    requested,     \* history: RequestItems of every batch_get_item call
    responses,     \* history: every response of batch_get_item
    sleeps,        \* history: argument of every time.sleep call
    \* ---- the store and one DynamoDBTable client ----
    store,         \* table name -> [status, items] as the service holds it
    batch_only,    \* ghost: table name -> nothing but write_batch has put
                   \* items into the table since it was created
    table,         \* self.table: None or the name the Table resource is for
    pc,            \* position of the caller of the client
    ret,           \* outcome of the last call that ended: [op, arg, out, val]
    table_name,    \* run_scenario's parameter while it runs
    calls,         \* history: client methods entered since the current
                   \* top-level operation (or program run) began
    answer,        \* history: what the store answered to the last request
                   \* of the last client method ("ok", an error code, or
                   \* NoAnswer when no request was sent)
    \* ---- __main__ of data_to_dynamodb.py ----
    mpc,           \* position of __main__ ("driver": no program run, the
                   \* library is called directly)
    flat_json_list,\* the records built from the annotation files
    x,             \* the records after the split (train, then test)
    \* ---- the annotation files, data_to_dynamodb.py:93-110 ----
    lines,         \* the stripped lines of one annotation file
    sublists,      \* split_list_on_element(lines)
    jsons,         \* the records map_list_to_json has built so far
    bpc,           \* position: "split", "map", "built", "raised"
    \* ---- a second run of the program on the same annotation files ----
    x_rerun        \* the records after the split of the second run

getVars == <<dynamodb, batch_keys, tries, sleepy_time, retrieved, gpc,
             requested, responses, sleeps>>
tblVars == <<store, batch_only, table, pc, ret, table_name, calls, answer>>
mainVars == <<mpc, flat_json_list, x>>
buildVars == <<lines, sublists, jsons, bpc>>
rerunVars == <<x_rerun>>

vars == <<getVars, tblVars, mainVars, buildVars, rerunVars>>

(***************************************************************************)
(* Helpers                                                                 *)
(***************************************************************************)
\* no request reached the store
NoAnswer == "none"

Min(a, b) == IF a < b THEN a ELSE b

\* the elements of a finite set of integers as an ascending list
RECURSIVE SortedSeq(_)
SortedSeq(S) ==
    IF S = {} THEN <<>>
    ELSE LET m == CHOOSE e \in S : \A y \in S : e <= y
         IN <<m>> \o SortedSeq(S \ {m})

\* the lists over S of length at most n
BoundedSeqs(S, n) == UNION { [1..k -> S] : k \in 0..n }

\* every request a caller can pass: a non-empty map from tables to non-empty
\* key sets
BatchRequests ==
    UNION { [T -> (SUBSET GetKeys) \ {{}}] : T \in (SUBSET GetTables) \ {{}} }

\* The answers batch_get_item can give to the request bk: the store processes
\* a part P[t] of the keys of each table and reports the others back as
\* UnprocessedKeys.  Tables without processed (unprocessed) keys are absent
\* from Responses (UnprocessedKeys).
BatchGetAnswers(bk) ==
    { [Responses |->
          [t \in {u \in DOMAIN bk : P[u] # {}} |-> SortedSeq(P[t])],
       UnprocessedKeys |->
          [t \in {u \in DOMAIN bk : bk[u] \ P[u] # {}} |-> bk[t] \ P[t]]]
      : P \in {Q \in [DOMAIN bk -> SUBSET GetKeys] :
                    \A t \in DOMAIN bk : Q[t] \subseteq bk[t]} }

(***************************************************************************)
(* The store and the records                                               *)
(***************************************************************************)
\* data_to_dynamodb.py:134 names the program's table; a second name stands
\* for any other table of the account
TableNames == {"facial-detection-dataset", "other"}
\* data_to_dynamodb.py:134, the table of the program; the library's direct
\* caller puts items into this table only
dt_name == "facial-detection-dataset"

\* image paths, in the order of the sort key
NameOrder == <<"2002/img_1", "2002/img_2", "2003/img_3">>
ImageNames == {NameOrder[i] : i \in 1..Len(NameOrder)}
\* the image paths the library's direct caller uses
CallerNames == {NameOrder[1], NameOrder[2]}

\* the annotation lines that follow an image path in the dataset
LinesOf(name) ==
    IF name = NameOrder[1] THEN <<"1", "e1">>
    ELSE IF name = NameOrder[2] THEN <<"2", "e2", "e3">>
    ELSE <<"0">>

\* dynamo.py:108-109, the key schema create_table declares
HashKey == "train_set"
RangeKey == "image_name"

None == "None"
AbsentTable == [status |-> "ABSENT", items |-> {}]
NoRet == [op |-> "none", arg |-> None, out |-> "none", val |-> None]
Ret(op, arg, out, val) == [op |-> op, arg |-> arg, out |-> out, val |-> val]

\* The item a record is stored as (data_to_dynamodb.py:44-49 builds the
\* record with these four attributes; modify_value sets train_set to 0)
Record(name, ts) ==
    [image_name |-> name,
     num_faces  |-> Len(LinesOf(name)) - 1,
     faces      |-> Tail(LinesOf(name)),
     train_set  |-> ts]

\* the records the library's direct caller passes
CallerRecords == {Record(n, ts) : n \in CallerNames, ts \in {0, 1}}

\* dynamo.py:158-163, the item add_entry builds from its argument
AddEntryItem(json_file) ==
    [image_name |-> json_file["image_name"],
     num_faces  |-> json_file["num_faces"],
     faces      |-> json_file["faces"],
     train_set  |-> json_file["train_set"]]

\* PutItem: the item replaces the one with the same primary key
PutItem(items, r) ==
    {i \in items : ~(i[HashKey] = r[HashKey] /\ i[RangeKey] = r[RangeKey])}
        \cup {r}

RECURSIVE PutAll(_, _)
PutAll(items, rs) ==
    IF rs = <<>> THEN items ELSE PutAll(PutItem(items, Head(rs)), Tail(rs))

\* GetItem and Query accept only keys over the attributes of the key schema
KeyMatchesSchema(key) == DOMAIN key = {HashKey, RangeKey}

\* the items a key selects
ItemsAt(items, key) == {i \in items : \A a \in DOMAIN key : i[a] = key[a]}

\* Query by partition key: the items of one partition in sort-key order
RECURSIVE QueryFrom(_, _, _)
QueryFrom(items, hv, i) ==
    IF i > Len(NameOrder) THEN <<>>
    ELSE LET m == {r \in items : r[HashKey] = hv /\ r[RangeKey] = NameOrder[i]}
         IN (IF m = {} THEN <<>> ELSE <<CHOOSE r \in m : TRUE>>)
                \o QueryFrom(items, hv, i + 1)

(***************************************************************************)
(* do_batch_get                                                            *)
(***************************************************************************)
\* the items are appended twice
Collect_Twice(acc, response) ==
    [t \in DOMAIN acc |->
        IF t \in DOMAIN response.Responses
        THEN acc[t] \o response.Responses[t] \o response.Responses[t]
        ELSE acc[t]]

\* "=" in place of "+=": the items of earlier responses are dropped
Collect_Overwrite(acc, response) ==
    [t \in DOMAIN acc |->
        IF t \in DOMAIN response.Responses
        THEN response.Responses[t]
        ELSE acc[t]]

\* lines 35-36: for key in response.get("Responses", []):
\*                  retrieved[key] += response["Responses"][key]
Collect(acc, response) ==
    [t \in DOMAIN acc |->
        IF t \in DOMAIN response.Responses
        THEN acc[t] \o response.Responses[t]
        ELSE acc[t]]

\* the delay is tripled
NextSleep_Triple(s) == Min(s * 3, SleepCap)

\* the delay grows by one instead of doubling
NextSleep_Linear(s) == Min(s + 1, SleepCap)

\* line 50
NextSleep(s) == Min(s * 2, SleepCap)

\* the test of line 47 left out: every retry sleeps
SleepsBeforeRetry_Always(n) == TRUE

\* line 47: if tries < max_tries (sleep before the next attempt)
SleepsBeforeRetry(n) == n < max_tries

\* "<=" in place of "<": one attempt more
LoopCond_OneMore(n) == n <= max_tries

\* line 31: while tries < max_tries
LoopCond(n) == n < max_tries

\* the client and the program do not take part in a do_batch_get run
BuildUnused ==
    /\ lines = <<>>
    /\ sublists = <<>>
    /\ jsons = <<>>
    /\ bpc = "unused"
    /\ x_rerun = <<>>

Unused ==
    /\ store = [n \in TableNames |-> AbsentTable]
    /\ batch_only = [n \in TableNames |-> TRUE]
    /\ table = None
    /\ pc = "unused"
    /\ ret = NoRet
    /\ table_name = None
    /\ calls = <<>>
    /\ answer = NoAnswer
    /\ mpc = "unused"
    /\ flat_json_list = <<>>
    /\ x = <<>>

GetInit ==
    /\ Unused
    /\ BuildUnused
    /\ dynamodb \in BOOLEAN
    /\ batch_keys \in BatchRequests
    /\ tries = 0
    /\ sleepy_time = BaseSleep
    /\ retrieved = [t \in DOMAIN batch_keys |-> <<>>]
    /\ gpc = "loop"
    /\ requested = <<>>
    /\ responses = <<>>
    /\ sleeps = <<>>

\* line 32 with the global `dynamodb` unbound: NameError leaves the function
GetNameError ==
    /\ gpc = "loop"
    /\ LoopCond(tries)
    /\ ~dynamodb
    /\ gpc' = "raised"
    /\ UNCHANGED <<dynamodb, batch_keys, tries, sleepy_time, retrieved,
                   requested, responses, sleeps, tblVars, mainVars, buildVars, rerunVars>>

\* line 32: batch_get_item raises a ClientError; nothing catches it
GetClientError ==
    /\ gpc = "loop"
    /\ LoopCond(tries)
    /\ dynamodb
    /\ requested' = Append(requested, batch_keys)
    /\ gpc' = "raised"
    /\ UNCHANGED <<dynamodb, batch_keys, tries, sleepy_time, retrieved,
                   responses, sleeps, tblVars, mainVars, buildVars, rerunVars>>

\* one iteration of the while loop, lines 31-52, ending with all keys
\* processed (break, then return retrieved)
GetLast ==
    /\ gpc = "loop"
    /\ LoopCond(tries)
    /\ dynamodb
    /\ \E response \in BatchGetAnswers(batch_keys) :
          /\ DOMAIN response.UnprocessedKeys = {}
          /\ requested' = Append(requested, batch_keys)
          /\ responses' = Append(responses, response)
          /\ retrieved' = Collect(retrieved, response)
    /\ gpc' = "done"
    /\ UNCHANGED <<dynamodb, batch_keys, tries, sleepy_time, sleeps,
                   tblVars, mainVars, buildVars, rerunVars>>

\* one iteration of the while loop, lines 31-52, with unprocessed keys left
GetRetry ==
    /\ gpc = "loop"
    /\ LoopCond(tries)
    /\ dynamodb
    /\ \E response \in BatchGetAnswers(batch_keys) :
          /\ DOMAIN response.UnprocessedKeys # {}
          /\ requested' = Append(requested, batch_keys)
          /\ responses' = Append(responses, response)
          /\ retrieved' = Collect(retrieved, response)
          /\ batch_keys' = response.UnprocessedKeys
    /\ tries' = tries + 1
    /\ IF SleepsBeforeRetry(tries')
       THEN /\ sleeps' = Append(sleeps, sleepy_time)
            /\ sleepy_time' = NextSleep(sleepy_time)
       ELSE UNCHANGED <<sleeps, sleepy_time>>
    /\ gpc' = IF LoopCond(tries') THEN "loop" ELSE "done"
    /\ UNCHANGED <<dynamodb, tblVars, mainVars, buildVars, rerunVars>>

GetNext == GetNameError \/ GetClientError \/ GetLast \/ GetRetry

SpecGet == GetInit /\ [][GetNext]_vars

\* the function keeps running until it returns or raises, and the store
\* answers every request
SpecGetFair == SpecGet /\ WF_vars(GetNext)

(***************************************************************************)
(* Properties of do_batch_get                                              *)
(***************************************************************************)
\* every response so far reported unprocessed keys
AllUnprocessed ==
    \A i \in 1..Len(responses) : DOMAIN responses[i].UnprocessedKeys # {}

\* the items response number i carries for table t
ItemsOf(i, t) ==
    IF t \in DOMAIN responses[i].Responses
    THEN responses[i].Responses[t] ELSE <<>>

\* the items of responses 1..n for table t, in attempt order
RECURSIVE ItemsUpTo(_, _)
ItemsUpTo(n, t) ==
    IF n = 0 THEN <<>> ELSE ItemsUpTo(n - 1, t) \o ItemsOf(n, t)

\* C1 as stated: when every attempt leaves unprocessed keys, the call sleeps
\* five times, for 1, 2, 4, 8 and 16.
C1_FiveSleeps ==
    (gpc = "done" /\ AllUnprocessed) => sleeps = <<1, 2, 4, 8, 16>>

\* C1 amended: when every attempt leaves unprocessed keys, the call sleeps
\* exactly four times, for 1, 2, 4 and 8 (each delay double the previous one,
\* never above 32); no sleep follows the fifth attempt.
C1_FourSleeps ==
    (gpc = "done" /\ AllUnprocessed) => sleeps = <<1, 2, 4, 8>>

C1_Witness ==
    /\ gpc = "done"
    /\ AllUnprocessed
    /\ Len(responses) = max_tries
    /\ Len(sleeps) = 4

\* C2: when every attempt leaves unprocessed keys, exactly 5 batch_get_item
\* calls are issued and the function then returns: a return happens only
\* after the fifth call, the fifth such response ends the loop, and no sixth
\* call is made.
C2_FiveCalls ==
    AllUnprocessed =>
        /\ gpc = "done" => Len(requested) = 5
        /\ Len(responses) = 5 => gpc = "done"
        /\ Len(requested) <= 5

C2_Witness ==
    /\ gpc = "done"
    /\ AllUnprocessed
    /\ Len(requested) = 5
    /\ Len(responses) = 5

\* C3: when the first response has no unprocessed keys, one call was made,
\* nothing slept, the function has returned, and the result holds for every
\* requested table exactly the items of that response, which cover every
\* requested key.
C3_SingleCall ==
    (Len(responses) >= 1 /\ DOMAIN responses[1].UnprocessedKeys = {}) =>
        /\ gpc = "done"
        /\ Len(requested) = 1
        /\ sleeps = <<>>
        /\ DOMAIN retrieved = DOMAIN requested[1]
        /\ \A t \in DOMAIN requested[1] :
              /\ retrieved[t] = ItemsOf(1, t)
              /\ {retrieved[t][j] : j \in 1..Len(retrieved[t])} = requested[1][t]
              /\ Len(retrieved[t]) = Cardinality(requested[1][t])

C3_Witness ==
    /\ gpc = "done"
    /\ Len(responses) = 1
    /\ DOMAIN responses[1].UnprocessedKeys = {}
    /\ \E t \in DOMAIN retrieved : Len(retrieved[t]) >= 2

\* C4: when the fifth attempt still leaves unprocessed keys the function
\* returns without an error, and the result holds for every requested table
\* the concatenation, in attempt order, of the items of all five responses.
C4_PartialResult ==
    (Len(responses) = max_tries
        /\ DOMAIN responses[max_tries].UnprocessedKeys # {}) =>
        /\ gpc = "done"
        /\ DOMAIN retrieved = DOMAIN requested[1]
        /\ \A t \in DOMAIN requested[1] :
              retrieved[t] = ItemsUpTo(max_tries, t)

C4_Witness ==
    /\ gpc = "done"
    /\ Len(responses) = max_tries
    /\ DOMAIN responses[max_tries].UnprocessedKeys # {}
    /\ \E t \in DOMAIN retrieved :
          /\ Len(retrieved[t]) >= 1
          /\ ItemsOf(max_tries, t) # <<>>
          /\ ItemsOf(1, t) # <<>>

(***************************************************************************)
(* class DynamoDBTable                                                     *)
(***************************************************************************)
\* a failure of the service that does not depend on the request
ServiceError == "InternalServerError"

\* an except clause that logs and goes on: the method returns None
Reraise_Swallow(op, arg, code) == Ret(op, arg, "return", None)

\* the except clauses (lines 84-92, 121-128, 141-145, 166-173, 192-200,
\* 213-218, 235-240): the ClientError is logged and raised again
Reraise(op, arg, code) == Ret(op, arg, "ClientError", code)

\* where the program stands after a library call made at position m ended
\* normally (ok) or with an exception nothing catches
AfterCall(m, ok) ==
    IF m = "driver" THEN "driver"
    ELSE IF ~ok THEN "m_failed"
    ELSE IF m = "m_scenario" THEN "m_write"
    ELSE "m_done"

\* lines 63-68, __init__
DtInit ==
    /\ mpc = "driver"
    /\ pc = "idle"
    /\ table' = None
    /\ ret' = Ret("__init__", None, "return", None)
    /\ answer' = NoAnswer
    /\ calls' = <<>>
    /\ UNCHANGED <<store, batch_only, pc, table_name, getVars, buildVars, rerunVars, mainVars>>

\* exists that clears the handle when the table is absent
ExistsBody_Unbinds(name, tbl, log) ==
    /\ \/ /\ store[name].status # "ABSENT"
          /\ table' = name
          /\ answer' = "ok"
          /\ ret' = Ret("exists", name, "return", TRUE)
          /\ calls' = Append(log, <<"exists", name, "True">>)
       \/ /\ store[name].status = "ABSENT"
          /\ table' = None
          /\ answer' = "ResourceNotFoundException"
          /\ ret' = Ret("exists", name, "return", FALSE)
          /\ calls' = Append(log, <<"exists", name, "False">>)
       \/ /\ table' = tbl
          /\ answer' = ServiceError
          /\ ret' = Reraise("exists", name, ServiceError)
          /\ calls' = Append(log, <<"exists", name, "raise">>)
    /\ UNCHANGED <<store, batch_only>>

\* exists without line 94: the handle is never bound
ExistsBody_NoBind(name, tbl, log) ==
    /\ \/ /\ store[name].status # "ABSENT"
          /\ table' = tbl
          /\ answer' = "ok"
          /\ ret' = Ret("exists", name, "return", TRUE)
          /\ calls' = Append(log, <<"exists", name, "True">>)
       \/ /\ store[name].status = "ABSENT"
          /\ table' = tbl
          /\ answer' = "ResourceNotFoundException"
          /\ ret' = Ret("exists", name, "return", FALSE)
          /\ calls' = Append(log, <<"exists", name, "False">>)
       \/ /\ table' = tbl
          /\ answer' = ServiceError
          /\ ret' = Reraise("exists", name, ServiceError)
          /\ calls' = Append(log, <<"exists", name, "raise">>)
    /\ UNCHANGED <<store, batch_only>>

\* lines 78-95, exists(name) of a client whose handle is tbl; log is the
\* history so far
ExistsBody(name, tbl, log) ==
    /\ \/ /\ store[name].status # "ABSENT"
          /\ table' = name
          /\ answer' = "ok"
          /\ ret' = Ret("exists", name, "return", TRUE)
          /\ calls' = Append(log, <<"exists", name, "True">>)
       \/ /\ store[name].status = "ABSENT"
          /\ table' = tbl
          /\ answer' = "ResourceNotFoundException"
          /\ ret' = Ret("exists", name, "return", FALSE)
          /\ calls' = Append(log, <<"exists", name, "False">>)
       \/ /\ table' = tbl
          /\ answer' = ServiceError
          /\ ret' = Reraise("exists", name, ServiceError)
          /\ calls' = Append(log, <<"exists", name, "raise">>)
    /\ UNCHANGED <<store, batch_only>>

DtExists ==
    /\ mpc = "driver"
    /\ pc = "idle"
    /\ \E name \in TableNames : ExistsBody(name, table, <<>>)
    /\ UNCHANGED <<pc, table_name, getVars, buildVars, rerunVars, mainVars>>

\* create_table that binds the handle to the named table before the request
\* is answered: a rejection leaves the handle bound
CreateBody_BindsFirst(name, log, waitpc) ==
    \/ /\ store[name].status = "ABSENT"
       /\ calls' = Append(log, <<"create_table", name, "accepted">>)
       /\ answer' = "ok"
       /\ store' = [store EXCEPT ![name] =
                       [status |-> "CREATING", items |-> {}]]
       /\ batch_only' = [batch_only EXCEPT ![name] = TRUE]
       /\ table' = name
       /\ pc' = waitpc
       /\ UNCHANGED <<ret, mpc>>
    \/ /\ calls' = Append(log, <<"create_table", name, "rejected">>)
       /\ \E code \in {ServiceError, "ResourceInUseException"} :
             /\ code = "ResourceInUseException"
                   => store[name].status # "ABSENT"
             /\ answer' = code
             /\ ret' = Reraise("create_table", name, code)
       /\ pc' = "idle"
       /\ mpc' = AfterCall(mpc, FALSE)
       /\ table' = name
       /\ UNCHANGED <<store, batch_only>>

\* lines 104-119, the CreateTable request of create_table(name): accepted
\* (the handle is bound and the call goes on to wait) or rejected (lines
\* 121-128 log and re-raise; the assignment of line 105 did not happen)
CreateBody(name, log, waitpc) ==
    \/ /\ store[name].status = "ABSENT"
       /\ calls' = Append(log, <<"create_table", name, "accepted">>)
       /\ answer' = "ok"
       /\ store' = [store EXCEPT ![name] =
                       [status |-> "CREATING", items |-> {}]]
       /\ batch_only' = [batch_only EXCEPT ![name] = TRUE]
       /\ table' = name
       /\ pc' = waitpc
       /\ UNCHANGED <<ret, mpc>>
    \/ /\ calls' = Append(log, <<"create_table", name, "rejected">>)
       /\ \E code \in {ServiceError, "ResourceInUseException"} :
             /\ code = "ResourceInUseException"
                   => store[name].status # "ABSENT"
             /\ answer' = code
             /\ ret' = Reraise("create_table", name, code)
       /\ pc' = "idle"
       /\ mpc' = AfterCall(mpc, FALSE)
       /\ UNCHANGED <<store, batch_only, table>>

DtCreateTable ==
    /\ mpc = "driver"
    /\ pc = "idle"
    /\ \E name \in TableNames : CreateBody(name, <<>>, "create_wait")
    /\ UNCHANGED <<table_name, getVars, buildVars, rerunVars, flat_json_list, x>>

\* line 120, wait_until_exists returns once DescribeTable reports ACTIVE;
\* line 130 returns the table
DtCreateWait ==
    /\ pc = "create_wait"
    /\ store[table].status = "ACTIVE"
    /\ ret' = Ret("create_table", table, "return", table)
    /\ pc' = "idle"
    /\ UNCHANGED <<store, batch_only, table, table_name, calls, answer,
                   getVars, buildVars, rerunVars, mainVars>>

\* line 120, the waiter gives up: WaiterError is no ClientError and passes
\* through create_table
DtCreateTimeout ==
    /\ pc = "create_wait"
    /\ store[table].status = "CREATING"
    /\ ret' = Ret("create_table", table, "WaiterError", None)
    /\ pc' = "idle"
    /\ UNCHANGED <<store, batch_only, table, table_name, calls, answer,
                   getVars, buildVars, rerunVars, mainVars>>

\* the service finishes creating a table
StoreActivate ==
    /\ \E name \in TableNames :
          /\ store[name].status = "CREATING"
          /\ store' = [store EXCEPT ![name].status = "ACTIVE"]
    /\ UNCHANGED <<batch_only, table, pc, ret, table_name, calls, answer,
                   getVars, buildVars, rerunVars, mainVars>>

\* delete_table without line 140: the handle survives the deletion
DtDeleteTable_KeepsHandle ==
    /\ mpc = "driver"
    /\ pc = "idle"
    /\ IF table = None
       THEN /\ answer' = NoAnswer
            /\ ret' = Ret("delete_table", None, "AttributeError", None)
            /\ calls' = <<>>
            /\ UNCHANGED <<store, batch_only, table>>
       ELSE /\ calls' = <<<<"delete_table", table>>>>
            /\ \/ /\ store[table].status = "ACTIVE"
                  /\ store' = [store EXCEPT ![table] = AbsentTable]
                  /\ batch_only' = [batch_only EXCEPT ![table] = TRUE]
                  /\ table' = table
                  /\ answer' = "ok"
                  /\ ret' = Ret("delete_table", table, "return", None)
               \/ /\ \E code \in {ServiceError, "ResourceNotFoundException",
                                  "ResourceInUseException"} :
                        /\ code = "ResourceNotFoundException"
                              => store[table].status = "ABSENT"
                        /\ code = "ResourceInUseException"
                              => store[table].status = "CREATING"
                        /\ answer' = code
                        /\ ret' = Reraise("delete_table", table, code)
                  /\ UNCHANGED <<store, batch_only, table>>
    /\ UNCHANGED <<pc, table_name, getVars, buildVars, rerunVars, mainVars>>

\* lines 136-145, delete_table()
DtDeleteTable ==
    /\ mpc = "driver"
    /\ pc = "idle"
    /\ IF table = None
       THEN /\ answer' = NoAnswer
            /\ ret' = Ret("delete_table", None, "AttributeError", None)
            /\ calls' = <<>>
            /\ UNCHANGED <<store, batch_only, table>>
       ELSE /\ calls' = <<<<"delete_table", table>>>>
            /\ \/ /\ store[table].status = "ACTIVE"
                  /\ store' = [store EXCEPT ![table] = AbsentTable]
                  /\ batch_only' = [batch_only EXCEPT ![table] = TRUE]
                  /\ table' = None
                  /\ answer' = "ok"
                  /\ ret' = Ret("delete_table", table, "return", None)
               \/ /\ \E code \in {ServiceError, "ResourceNotFoundException",
                                  "ResourceInUseException"} :
                        /\ code = "ResourceNotFoundException"
                              => store[table].status = "ABSENT"
                        /\ code = "ResourceInUseException"
                              => store[table].status = "CREATING"
                        /\ answer' = code
                        /\ ret' = Reraise("delete_table", table, code)
                  /\ UNCHANGED <<store, batch_only, table>>
    /\ UNCHANGED <<pc, table_name, getVars, buildVars, rerunVars, mainVars>>

\* lines 156-173, add_entry(json_file)
DtAddEntry ==
    /\ mpc = "driver"
    /\ pc = "idle"
    /\ table \in {None, dt_name}
    /\ \E json_file \in CallerRecords :
          IF table = None
          THEN /\ answer' = NoAnswer
               /\ ret' = Ret("add_entry", json_file, "AttributeError", None)
               /\ calls' = <<>>
               /\ UNCHANGED <<store, batch_only>>
          ELSE /\ calls' = <<<<"add_entry", table>>>>
               /\ \/ /\ store[table].status = "ACTIVE"
                     /\ store' = [store EXCEPT ![table].items =
                                     PutItem(@, AddEntryItem(json_file))]
                     /\ batch_only' = [batch_only EXCEPT ![table] = FALSE]
                     /\ answer' = "ok"
                     /\ ret' = Ret("add_entry", json_file, "return", None)
                  \/ /\ \E code \in {ServiceError, "ResourceNotFoundException"} :
                           /\ code = "ResourceNotFoundException"
                                 => store[table].status # "ACTIVE"
                           /\ answer' = code
                           /\ ret' = Reraise("add_entry", json_file, code)
                     /\ UNCHANGED <<store, batch_only>>
    /\ UNCHANGED <<table, pc, table_name, getVars, buildVars, rerunVars, mainVars>>

\* the requests the batch writer of write_batch sends: entries is cut into
\* chunks of FlushAmount items, sent in order
NumChunks(entries) == (Len(entries) + FlushAmount - 1) \div FlushAmount
Chunk(entries, j) ==
    SubSeq(entries, (j - 1) * FlushAmount + 1,
           Min(j * FlushAmount, Len(entries)))
\* a writer that goes on after a failed request: every entry is stored
Flushed_All(entries, k) == entries

\* the entries of the first k chunks
Flushed(entries, k) == SubSeq(entries, 1, Min(k * FlushAmount, Len(entries)))

\* BatchWriteItem rejects a request that names one primary key twice
ChunkValid(c) ==
    \A i, j \in 1..Len(c) :
        (c[i][HashKey] = c[j][HashKey] /\ c[i][RangeKey] = c[j][RangeKey])
            => i = j

\* lines 188-200, write_batch(entries): the first k chunks are stored; when
\* k is not the last chunk, the request for chunk k + 1 failed, the error is
\* logged and re-raised, and nothing is sent after it
WriteBody(entries, log) ==
    IF table = None
    THEN /\ answer' = NoAnswer
         /\ ret' = Ret("write_batch", entries, "AttributeError", None)
         /\ calls' = log
         /\ UNCHANGED <<store, batch_only>>
    ELSE /\ calls' = Append(log, <<"write_batch", table>>)
         /\ \E k \in 0..NumChunks(entries) :
               /\ \A j \in 1..k : /\ ChunkValid(Chunk(entries, j))
                                  /\ store[table].status = "ACTIVE"
               /\ store' = [store EXCEPT ![table].items =
                               PutAll(@, Flushed(entries, k))]
               /\ UNCHANGED batch_only
               /\ IF k = NumChunks(entries)
                  THEN /\ answer' = IF entries = <<>> THEN NoAnswer ELSE "ok"
                       /\ ret' = Ret("write_batch", entries, "return", None)
                  ELSE \E code \in {ServiceError, "ValidationException",
                                    "ResourceNotFoundException"} :
                          /\ code = "ValidationException"
                                => ~ChunkValid(Chunk(entries, k + 1))
                          /\ code = "ResourceNotFoundException"
                                => store[table].status # "ACTIVE"
                          /\ answer' = code
                          /\ ret' = Reraise("write_batch", entries, code)

DtWriteBatch ==
    /\ mpc = "driver"
    /\ pc = "idle"
    /\ table \in {None, dt_name}
    /\ \E entries \in BoundedSeqs(CallerRecords, MaxEntries) :
          WriteBody(entries, <<>>)
    /\ UNCHANGED <<table, pc, table_name, getVars, buildVars, rerunVars, mainVars>>

\* line 202, the default of query_by
DefaultQueryBy == "is_train"

\* lines 209-220, query_table(query_by, query)
DtQueryTable ==
    /\ mpc = "driver"
    /\ pc = "idle"
    /\ \E query_by \in {DefaultQueryBy, "train_set"}, query \in {0, 1} :
          IF table = None
          THEN /\ answer' = NoAnswer
               /\ ret' = Ret("query_table", <<query_by, query>>, "AttributeError", None)
               /\ calls' = <<>>
          ELSE /\ calls' = <<<<"query_table", table>>>>
               /\ \/ /\ store[table].status = "ACTIVE"
                     /\ query_by = HashKey
                     /\ answer' = "ok"
                     /\ ret' = Ret("query_table", <<query_by, query>>, "return",
                                   QueryFrom(store[table].items, query, 1))
                  \/ \E code \in {ServiceError, "ValidationException",
                                  "ResourceNotFoundException"} :
                        /\ code = "ValidationException" => query_by # HashKey
                        /\ code = "ResourceNotFoundException"
                              => store[table].status # "ACTIVE"
                        /\ answer' = code
                        /\ ret' = Reraise("query_table", <<query_by, query>>, code)
    /\ UNCHANGED <<store, batch_only, table, pc, table_name, getVars, buildVars, rerunVars, mainVars>>

\* line 231, the key get_entry sends
GetEntryKey(image_name, is_train) ==
    [image_name |-> image_name, is_train |-> is_train]

\* lines 230-242, get_entry(image_name, is_train); line 242 raises KeyError
\* when the response carries no Item
DtGetEntry ==
    /\ mpc = "driver"
    /\ pc = "idle"
    /\ \E image_name \in CallerNames, is_train \in {0, 1} :
          IF table = None
          THEN /\ answer' = NoAnswer
               /\ ret' = Ret("get_entry", <<image_name, is_train>>, "AttributeError", None)
               /\ calls' = <<>>
          ELSE /\ calls' = <<<<"get_entry", table>>>>
               /\ LET key == GetEntryKey(image_name, is_train)
                      found == ItemsAt(store[table].items, key)
                  IN \/ /\ store[table].status = "ACTIVE"
                        /\ KeyMatchesSchema(key)
                        /\ answer' = "ok"
                        /\ IF found = {}
                           THEN ret' = Ret("get_entry", <<image_name, is_train>>,
                                           "KeyError", None)
                           ELSE ret' = Ret("get_entry", <<image_name, is_train>>,
                                           "return", CHOOSE i \in found : TRUE)
                     \/ \E code \in {ServiceError, "ValidationException",
                                     "ResourceNotFoundException"} :
                           /\ code = "ValidationException"
                                 => ~KeyMatchesSchema(key)
                           /\ code = "ResourceNotFoundException"
                                 => store[table].status # "ACTIVE"
                           /\ answer' = code
                           /\ ret' = Reraise("get_entry", <<image_name, is_train>>, code)
    /\ UNCHANGED <<store, batch_only, table, pc, table_name, getVars, buildVars, rerunVars, mainVars>>

(***************************************************************************)
(* run_scenario, data_to_dynamodb.py:66-83                                 *)
(***************************************************************************)
\* lines 73-74: a new client, and exists(table_name) on it
RsExists ==
    /\ pc = "idle"
    /\ mpc \in {"driver", "m_scenario"}
    /\ \E name \in (IF mpc = "driver" THEN TableNames ELSE {dt_name}) :
          /\ ExistsBody(name, None,
                        Append(IF mpc = "driver" THEN <<>> ELSE calls,
                               <<"run_scenario", name>>))
          /\ table_name' = IF ret'.out = "return" THEN name ELSE None
    /\ pc' = IF ret'.out = "return" THEN "rs_checked" ELSE "idle"
    /\ mpc' = IF ret'.out = "return" THEN mpc ELSE AfterCall(mpc, FALSE)
    /\ UNCHANGED <<getVars, buildVars, rerunVars, flat_json_list, x>>

\* lines 76-78: the table is absent, create_table(table_name) is called
RsCreate ==
    /\ pc = "rs_checked"
    /\ ret.val = FALSE
    /\ CreateBody(table_name, calls, "rs_wait")
    /\ table_name' = IF pc' = "rs_wait" THEN table_name ELSE None
    /\ UNCHANGED <<getVars, buildVars, rerunVars, flat_json_list, x>>

\* lines 80-83: the table is present, dt is returned
RsPresent ==
    /\ pc = "rs_checked"
    /\ ret.val = TRUE
    /\ ret' = Ret("run_scenario", table_name, "return", table)
    /\ pc' = "idle"
    /\ mpc' = AfterCall(mpc, TRUE)
    /\ table_name' = None
    /\ UNCHANGED <<store, batch_only, table, calls, answer, getVars, buildVars, rerunVars,
                   flat_json_list, x>>

\* dynamo.py:120 inside line 78, then lines 79 and 83: dt is returned
RsWait ==
    /\ pc = "rs_wait"
    /\ store[table].status = "ACTIVE"
    /\ ret' = Ret("run_scenario", table_name, "return", table)
    /\ pc' = "idle"
    /\ mpc' = AfterCall(mpc, TRUE)
    /\ table_name' = None
    /\ UNCHANGED <<store, batch_only, table, calls, answer, getVars, buildVars, rerunVars,
                   flat_json_list, x>>

\* dynamo.py:120 inside line 78: the waiter gives up
RsTimeout ==
    /\ pc = "rs_wait"
    /\ store[table].status = "CREATING"
    /\ ret' = Ret("run_scenario", table_name, "WaiterError", None)
    /\ pc' = "idle"
    /\ mpc' = AfterCall(mpc, FALSE)
    /\ table_name' = None
    /\ UNCHANGED <<store, batch_only, table, calls, answer, getVars, buildVars, rerunVars,
                   flat_json_list, x>>

\* do_batch_get does not take part in a run of the client
GetUnused ==
    /\ dynamodb = FALSE
    /\ batch_keys = <<>>
    /\ tries = 0
    /\ sleepy_time = BaseSleep
    /\ retrieved = <<>>
    /\ gpc = "unused"
    /\ requested = <<>>
    /\ responses = <<>>
    /\ sleeps = <<>>

TableInit ==
    /\ GetUnused
    /\ BuildUnused
    /\ store = [n \in TableNames |-> AbsentTable]
    /\ batch_only = [n \in TableNames |-> TRUE]
    /\ table = None
    /\ pc = "idle"
    /\ ret = NoRet
    /\ table_name = None
    /\ calls = <<>>
    /\ answer = NoAnswer
    /\ mpc = "driver"
    /\ flat_json_list = <<>>
    /\ x = <<>>

TableNext ==
    \/ DtInit \/ DtExists \/ DtCreateTable \/ DtCreateWait \/ DtCreateTimeout
    \/ StoreActivate \/ DtDeleteTable \/ DtAddEntry \/ DtWriteBatch
    \/ DtQueryTable \/ DtGetEntry
    \/ RsExists \/ RsCreate \/ RsPresent \/ RsWait \/ RsTimeout

Spec == TableInit /\ [][TableNext]_vars

(***************************************************************************)
(* __main__ of data_to_dynamodb.py, lines 116-140                          *)
(***************************************************************************)
\* lines 52-63
modify_value(d) == [d EXCEPT !["train_set"] = 0]

\* line 117, test_size=0.2: the size of the test part of n samples
NTest(n) == (n + 4) \div 5

\* a draw with replacement: a sample may be taken twice
Perms_WithReplacement(n) == [1..n -> 1..n]

\* line 117, the shuffles train_test_split can draw: the orders of n samples
Perms(n) == {p \in [1..n -> 1..n] : \A i, j \in 1..n : p[i] = p[j] => i = j}

\* line 124: [x for x in names if names.count(x) > 1]
Count(names, e) == Cardinality({i \in 1..Len(names) : names[i] = e})
\* "> 2" in place of "> 1": a name that occurs twice passes
Duplicates_Thrice(names) ==
    LET Thrice(e) == Count(names, e) > 2 IN SelectSeq(names, Thrice)

Duplicates(names) ==
    LET Twice(e) == Count(names, e) > 1 IN SelectSeq(names, Twice)

\* lines 117-119 on records the split accepts: every result train_test_split
\* can give when no random_state is passed, the test part tagged by
\* modify_value and put after the train part
SplitAndTag(recs) ==
    LET n == Len(recs)
        nt == NTest(n)
    IN {[i \in 1..n |-> IF i <= n - nt THEN recs[p[i]]
                        ELSE modify_value(recs[p[i]])] : p \in Perms(n)}

MainInit ==
    /\ GetUnused
    /\ BuildUnused
    /\ store \in [TableNames -> {AbsentTable,
                                 [status |-> "ACTIVE", items |-> {}]}]
    /\ batch_only = [n \in TableNames |-> TRUE]
    /\ table = None
    /\ pc = "idle"
    /\ ret = NoRet
    /\ table_name = None
    /\ calls = <<>>
    /\ answer = NoAnswer
    /\ mpc = "m_split"
    /\ flat_json_list \in
          BoundedSeqs({Record(n, 1) : n \in ImageNames}, MaxRecords)
    /\ x = <<>>

\* lines 117-120: train_test_split draws a shuffled split (ValueError when a
\* part would be empty), modify_value tags the test part, train.extend(test)
MainSplit ==
    /\ mpc = "m_split"
    /\ LET n == Len(flat_json_list)
           nt == NTest(n)
       IN IF n = 0 \/ n - nt = 0
          THEN /\ ret' = Ret("train_test_split", None, "ValueError", None)
               /\ mpc' = "m_failed"
               /\ x' = x
          ELSE /\ x' \in SplitAndTag(flat_json_list)
               /\ mpc' = "m_assert"
               /\ ret' = ret
    /\ UNCHANGED <<store, batch_only, table, pc, table_name, calls, answer,
                   flat_json_list, getVars, buildVars, rerunVars>>

\* lines 123-125
MainAssert ==
    /\ mpc = "m_assert"
    /\ LET names == [i \in 1..Len(x) |-> x[i]["image_name"]]
       IN IF Len(Duplicates(names)) = 0
          THEN /\ mpc' = "m_scenario"
               /\ ret' = ret
          ELSE /\ mpc' = "m_failed"
               /\ ret' = Ret("assert", None, "AssertionError", None)
    /\ UNCHANGED <<store, batch_only, table, pc, table_name, calls, answer,
                   flat_json_list, x, getVars, buildVars, rerunVars>>

\* line 138, then the summary of line 140
MainWrite ==
    /\ mpc = "m_write"
    /\ pc = "idle"
    /\ WriteBody(x, calls)
    /\ mpc' = AfterCall("m_write", ret'.out = "return")
    /\ UNCHANGED <<table, pc, table_name, flat_json_list, x, getVars, buildVars, rerunVars>>

MainNext ==
    \/ MainSplit \/ MainAssert
    \/ RsExists \/ RsCreate \/ RsPresent \/ RsWait \/ RsTimeout
    \/ StoreActivate \/ MainWrite

SpecMain == MainInit /\ [][MainNext]_vars

\* lines 117-119 in a second run of the program on the same files: the
\* first run has split, the second draws its own split
RerunSplit ==
    /\ mpc = "m_assert"
    /\ x_rerun = <<>>
    /\ x_rerun' \in SplitAndTag(flat_json_list)
    /\ UNCHANGED <<getVars, tblVars, mainVars, buildVars>>

RerunNext == MainSplit \/ RerunSplit

SpecRerun == MainInit /\ [][RerunNext]_vars

(***************************************************************************)
(* The annotation files, data_to_dynamodb.py:11-49 and 93-113              *)
(***************************************************************************)
\* the characters of a stripped line: the separator and a digit
Chars == {"/", "1"}
Lines == BoundedSeqs(Chars, MaxLineLen)

\* str.find(ch): the 0-based index of the first occurrence, -1 when absent
Find(item, ch) ==
    IF \E i \in 1..Len(item) : item[i] = ch
    THEN (CHOOSE i \in 1..Len(item) :
             item[i] = ch /\ \A j \in 1..(i - 1) : item[j] # ch) - 1
    ELSE -1

\* line 11, the default of split_element
split_element == "/"

\* lines 21-29, the for loop from item i on
RECURSIVE SplitLoop(_, _, _, _)
SplitLoop(input_list, i, result, sublist) ==
    IF i > Len(input_list)
    THEN [result |-> result, sublist |-> sublist]
    ELSE LET item == input_list[i]
         IN IF Find(item, split_element) > 0
            THEN IF sublist # <<>>
                 THEN SplitLoop(input_list, i + 1, Append(result, sublist),
                                <<item>>)
                 ELSE SplitLoop(input_list, i + 1, result,
                                Append(sublist, item))
            ELSE SplitLoop(input_list, i + 1, result, Append(sublist, item))

\* without the test of line 30: the last sublist is appended even when empty
split_list_on_element_AlwaysAppend(input_list) ==
    LET r == SplitLoop(input_list, 1, <<>>, <<>>)
    IN Append(r.result, r.sublist)

\* lines 19-32
split_list_on_element(input_list) ==
    LET r == SplitLoop(input_list, 1, <<>>, <<>>)
    IN IF r.sublist # <<>> THEN Append(r.result, r.sublist) ELSE r.result

\* the decimal digits int() reads
Digits == <<"0", "1", "2", "3", "4", "5", "6", "7", "8", "9">>
IsDigit(c) == \E d \in 1..Len(Digits) : Digits[d] = c
DigitValue(c) == (CHOOSE d \in 1..Len(Digits) : Digits[d] = c) - 1

\* line 46, int(str) of a stripped line: the digits are read from the left
\* in base 10; a line that is empty or holds another character is a
\* ValueError
RECURSIVE IntLoop(_, _, _)
IntLoop(str, i, acc) ==
    IF i > Len(str) THEN acc
    ELSE IntLoop(str, i + 1, acc * 10 + DigitValue(str[i]))

int(str) ==
    IF str = <<>> \/ \E i \in 1..Len(str) : ~IsDigit(str[i])
    THEN [ok |-> FALSE, val |-> None]
    ELSE [ok |-> TRUE, val |-> IntLoop(str, 1, 0)]

\* faces taken from x[1:] in place of x[2:]
map_list_to_json_FacesFromCount(g) ==
    IF Len(g) < 2 THEN [out |-> "IndexError", val |-> None]
    ELSE IF ~int(g[2]).ok THEN [out |-> "ValueError", val |-> None]
    ELSE [out |-> "return",
          val |-> [image_name |-> g[1],
                   num_faces  |-> int(g[2]).val,
                   faces      |-> SubSeq(g, 2, Len(g)),
                   train_set  |-> 1]]

\* lines 44-49: x[0] and x[1] raise IndexError on a list that short, int()
\* raises ValueError, os.path.join of one component returns it
map_list_to_json(g) ==
    IF Len(g) < 2 THEN [out |-> "IndexError", val |-> None]
    ELSE IF ~int(g[2]).ok THEN [out |-> "ValueError", val |-> None]
    ELSE [out |-> "return",
          val |-> [image_name |-> g[1],
                   num_faces  |-> int(g[2]).val,
                   faces      |-> SubSeq(g, 3, Len(g)),
                   train_set  |-> 1]]

BuildInit ==
    /\ GetUnused
    /\ Unused
    /\ x_rerun = <<>>
    /\ lines \in BoundedSeqs(Lines, MaxLines)
    /\ sublists = <<>>
    /\ jsons = <<>>
    /\ bpc = "split"

\* line 101
BuildSplit ==
    /\ bpc = "split"
    /\ sublists' = split_list_on_element(lines)
    /\ bpc' = "map"
    /\ UNCHANGED <<lines, jsons, getVars, rerunVars, tblVars, mainVars>>

\* line 108, map_list_to_json applied to the next group; an exception ends
\* the program
BuildMap ==
    /\ bpc = "map"
    /\ Len(jsons) < Len(sublists)
    /\ LET g == sublists[Len(jsons) + 1]
           r == map_list_to_json(g)
       IN /\ ret' = Ret("map_list_to_json", g, r.out, r.val)
          /\ IF r.out = "return"
             THEN /\ jsons' = Append(jsons, r.val)
                  /\ bpc' = bpc
             ELSE /\ jsons' = jsons
                  /\ bpc' = "raised"
    /\ UNCHANGED <<lines, sublists, store, batch_only, table, pc, table_name,
                   calls, answer, getVars, rerunVars, mainVars>>

\* lines 109-113: every group gave a record
BuildFlatten ==
    /\ bpc = "map"
    /\ Len(jsons) = Len(sublists)
    /\ flat_json_list' = jsons
    /\ bpc' = "built"
    /\ UNCHANGED <<lines, sublists, jsons, mpc, x, getVars, rerunVars, tblVars>>

BuildNext == BuildSplit \/ BuildMap \/ BuildFlatten

SpecBuild == BuildInit /\ [][BuildNext]_vars

(***************************************************************************)
(* Properties of the table client                                          *)
(***************************************************************************)
\* the last entry of the history
LastCall == calls[Len(calls)]

\* the history holds a call of method op with outcome o
Called(op, o) ==
    \E i \in 1..Len(calls) : calls[i][1] = op /\ calls[i][3] = o

\* the history is that of a run_scenario call
InScenario == calls # <<>> /\ calls[1][1] = "run_scenario"

\* the items of the bound table under the composite key (partition, name)
BoundItemsAt(name, partition) ==
    {i \in store[table].items :
        i["image_name"] = name /\ i["train_set"] = partition}

\* the last call ended with an error of the service itself
ServiceFailed == ret.out = "ClientError" /\ ret.val = ServiceError

\* the handle is bound to a ready table created by create_table whose items
\* all come from write_batch
OnBatchWrittenTable ==
    /\ table # None
    /\ store[table].status = "ACTIVE"
    /\ batch_only[table]

\* C5: a record that write_batch stored in a table created by create_table
\* is returned, equal in all fields, by get_entry(image_name, partition)
\* with the record's composite key (unless the service itself fails).
C5_RoundTrip ==
    (/\ ret.op = "get_entry"
     /\ calls = <<<<"get_entry", table>>>>
     /\ OnBatchWrittenTable
     /\ BoundItemsAt(ret.arg[1], ret.arg[2]) # {}
     /\ ~ServiceFailed)
        => /\ ret.out = "return"
           /\ ret.val \in BoundItemsAt(ret.arg[1], ret.arg[2])

\* C6: on a table created by create_table and filled by write_batch,
\* query_table with its default key attribute returns exactly the records of
\* the queried partition (1: train, 0: test), so that the two counts sum to
\* the number of records (unless the service itself fails).
C6_QueryPartitions ==
    (/\ ret.op = "query_table"
     /\ calls = <<<<"query_table", table>>>>
     /\ ret.arg[1] = DefaultQueryBy
     /\ OnBatchWrittenTable
     /\ store[table].items # {}
     /\ ~ServiceFailed)
        => /\ ret.out = "return"
           /\ {ret.val[i] : i \in 1..Len(ret.val)}
                 = {r \in store[table].items : r["train_set"] = ret.arg[2]}
           /\ Len(ret.val) = Cardinality(
                 {r \in store[table].items : r["train_set"] = ret.arg[2]})

\* C7: exists(name) returns false exactly when the table is absent and binds
\* the handle when it returns true; a create_table(name) that returned has
\* bound the handle to a table the store reports ready; run_scenario calls
\* create_table if and only if exists returned false, and when it returns the
\* handle is bound to the named table.
C7_Lifecycle ==
    /\ (pc \in {"idle", "rs_checked"} /\ ret.op = "exists"
            /\ ret.out = "return") =>
          /\ ret.val = (store[ret.arg].status # "ABSENT")
          /\ (ret.val => table = ret.arg)
    /\ (pc = "idle" /\ ret.op = "create_table" /\ ret.out = "return") =>
          /\ table = ret.arg
          /\ store[ret.arg].status = "ACTIVE"
    /\ (InScenario /\ \E i \in 1..Len(calls) : calls[i][1] = "create_table")
          => Called("exists", "False")
    /\ (pc = "idle" /\ ret.op = "run_scenario" /\ ret.out = "return") =>
          /\ table = ret.arg
          /\ store[ret.arg].status # "ABSENT"
          /\ (Called("create_table", "accepted") <=> Called("exists", "False"))
          /\ (Called("create_table", "accepted")
                => store[ret.arg].status = "ACTIVE")

\* a table that was absent at the start has been created, and a new client
\* (the one of run_scenario) found it present
C7_Witness ==
    /\ pc = "idle"
    /\ ret.op = "run_scenario"
    /\ ret.out = "return"
    /\ Called("exists", "True")
    /\ table = dt_name
    /\ store[dt_name].status = "ACTIVE"

\* C8: when the handle is unbound, exists(name) has returned false and the
\* store rejects the creation, create_table(name) ends with the ClientError,
\* the handle is still unbound and the store still has no such table.
C8_CreateRejected ==
    [][(/\ table = None
        /\ pc \in {"idle", "rs_checked"}
        /\ ret.op = "exists" /\ ret.out = "return" /\ ret.val = FALSE
        /\ calls' # <<>>
        /\ calls'[Len(calls')] = <<"create_table", ret.arg, "rejected">>)
          => /\ ret'.op = "create_table"
             /\ ret'.out = "ClientError"
             /\ pc' = "idle"
             /\ table' = None
             /\ store' = store
             /\ store'[ret.arg].status = "ABSENT"]_vars

C8_Witness ==
    /\ InScenario
    /\ Called("exists", "False")
    /\ LastCall[1] = "create_table"
    /\ LastCall[3] = "rejected"
    /\ ret.op = "create_table"
    /\ ret.out = "ClientError"
    /\ table = None
    /\ store[ret.arg].status = "ABSENT"

\* C10: get_entry for a composite key without an item in the bound, ready
\* table ends with the not-found error of line 242 (KeyError), not with a
\* ClientError.
C10_NotFound ==
    (/\ ret.op = "get_entry"
     /\ calls = <<<<"get_entry", table>>>>
     /\ store[table].status = "ACTIVE"
     /\ BoundItemsAt(ret.arg[1], ret.arg[2]) = {}
     /\ ~ServiceFailed)
        => ret.out = "KeyError"

(***************************************************************************)
(* Properties of __main__                                                  *)
(***************************************************************************)
\* two records of the list share their image_name
SharesName(recs) ==
    \E i, j \in 1..Len(recs) :
        i # j /\ recs[i]["image_name"] = recs[j]["image_name"]

\* C9: when two records share an image_name the run never reaches
\* run_scenario: no exists, create_table or write_batch call is made, no
\* client is bound and the store is left as it was.
C9_DuplicateAborts ==
    (SharesName(flat_json_list) \/ SharesName(x)) =>
        /\ calls = <<>>
        /\ mpc \in {"m_split", "m_assert", "m_failed"}
        /\ table = None
        /\ \A n \in TableNames : store[n].items = {}

C9_Witness ==
    /\ SharesName(x)
    /\ mpc = "m_failed"
    /\ ret.out = "AssertionError"
    /\ calls = <<>>

\* C11: once delete_table() of a bound client has ended, exactly one delete
\* request was issued; when the store accepted it the call returned, the
\* table is gone and the handle is None; when the store rejected it the
\* store's error was raised again and the handle is still the table the
\* request named.
C11_Delete ==
    (pc = "idle" /\ calls # <<>> /\ calls[1][1] = "delete_table")
        => /\ calls = <<<<"delete_table", calls[1][2]>>>>
           /\ calls[1][2] \in TableNames
           /\ (answer = "ok")
                 => /\ ret = Ret("delete_table", calls[1][2], "return", None)
                    /\ table = None
                    /\ store[calls[1][2]].status = "ABSENT"
           /\ (answer # "ok")
                 => /\ ret = Ret("delete_table", calls[1][2], "ClientError",
                                 answer)
                    /\ table = calls[1][2]

C11_Witness ==
    /\ pc = "idle"
    /\ calls # <<>>
    /\ calls[1][1] = "delete_table"
    /\ answer = "ok"
    /\ table = None
    /\ ret.op = "delete_table"

\* the lines of all groups, in order
RECURSIVE Concat(_)
Concat(groups) ==
    IF groups = <<>> THEN <<>> ELSE Head(groups) \o Concat(Tail(groups))

\* C12: whatever the lines are, split_list_on_element returns no empty
\* group, the groups' lines put together in order are the input, and no
\* lines give no groups.
C12_Groups ==
    bpc \in {"map", "built", "raised"}
        => /\ \A k \in 1..Len(sublists) : sublists[k] # <<>>
           /\ Concat(sublists) = lines
           /\ (lines = <<>>) => (sublists = <<>>)

C12_Witness ==
    /\ bpc = "map"
    /\ Len(sublists) >= 2
    /\ Len(sublists[1]) >= 2

\* a line made of decimal digits only, and the number it writes
IsIntString(c) == c # <<>> /\ \A i \in 1..Len(c) : IsDigit(c[i])
RECURSIVE Denotes(_)
Denotes(c) ==
    IF c = <<>> THEN 0
    ELSE DigitValue(c[Len(c)]) + 10 * Denotes(SubSeq(c, 1, Len(c) - 1))

\* C13: map_list_to_json of a group [name, count, f1..fn] whose count is
\* written in digits returns the record with that name, the number count
\* writes, the faces f1..fn in order and train_set 1; of a group of fewer
\* than 2 lines it raises (IndexError) and no record is built for the group.
C13_Record ==
    (bpc \in {"map", "built", "raised"} /\ ret.op = "map_list_to_json")
        => LET g == ret.arg
           IN /\ (Len(g) >= 2 /\ IsIntString(g[2]))
                    => /\ ret.out = "return"
                       /\ ret.val = [image_name |-> g[1],
                                     num_faces  |-> Denotes(g[2]),
                                     faces      |-> [i \in 1..(Len(g) - 2)
                                                        |-> g[i + 2]],
                                     train_set  |-> 1]
                       /\ jsons # <<>>
                       /\ jsons[Len(jsons)] = ret.val
              /\ (Len(g) < 2)
                    => /\ ret.out = "IndexError"
                       /\ ret.val = None
                       /\ bpc = "raised"
                       /\ Len(jsons) < Len(sublists)
                       /\ sublists[Len(jsons) + 1] = g

C13_Witness ==
    /\ bpc = "map"
    /\ ret.op = "map_list_to_json"
    /\ ret.out = "return"
    /\ Len(ret.arg) = 3
    /\ ret.val["num_faces"] = 11

\* the records of recs with the partition flag erased, and how often one
\* of them occurs
Untagged(recs) == [i \in 1..Len(recs) |-> [recs[i] EXCEPT !["train_set"] = 1]]
Occurs(recs, r) == Cardinality({i \in 1..Len(recs) : recs[i] = r})
NamesTagged(recs, ts) ==
    {recs[i]["image_name"] : i \in {j \in 1..Len(recs) : recs[j]["train_set"] = ts}}
SplitDone == mpc # "m_split" /\ x # <<>>
Preserved ==
    /\ Len(x) = Len(flat_json_list)
    /\ \A i \in 1..Len(flat_json_list) :
          Occurs(Untagged(x), flat_json_list[i])
              = Occurs(flat_json_list, flat_json_list[i])
    /\ \A i \in 1..Len(x) : x[i]["train_set"] \in {0, 1}
    /\ NamesTagged(x, 1) \cup NamesTagged(x, 0)
          = {flat_json_list[i]["image_name"] : i \in 1..Len(flat_json_list)}

TestPart(recs) == SelectSeq(recs, LAMBDA r : r["train_set"] = 0)

\* C15: two runs of the split on the same records put the same records
\* into the test partition (and so the same into the train partition).
C15_SamePartition ==
    (x # <<>> /\ x_rerun # <<>>)
        => \A i \in 1..Len(flat_json_list) :
              Occurs(Untagged(TestPart(x)), flat_json_list[i])
                  = Occurs(Untagged(TestPart(x_rerun)), flat_json_list[i])

\* the methods of DynamoDBTable that send a request
ClientOps ==
    {"exists", "create_table", "delete_table", "add_entry", "write_batch",
     "query_table", "get_entry"}

\* the store answered the last request of the last method with an error
StoreRejected == ret.op \in ClientOps /\ answer \notin {"ok", NoAnswer}

\* C16 as stated: whenever the store answers a method of the client with a
\* client error, the method ends by raising that error; none returns
\* normally.
C16_AllReraised ==
    StoreRejected => (ret.out = "ClientError" /\ ret.val = answer)

\* C16, amended: exists returns False when the store's error is
\* ResourceNotFoundException; every other error of every method is raised
\* again.
C16_ReraisedButNotFound ==
    StoreRejected
        => IF ret.op = "exists" /\ answer = "ResourceNotFoundException"
           THEN ret.out = "return" /\ ret.val = FALSE
           ELSE ret.out = "ClientError" /\ ret.val = answer

C16_Witness ==
    /\ StoreRejected
    /\ ret.op = "get_entry"
    /\ answer = ServiceError
    /\ ret.out = "ClientError"
    /\ table # None

UniqueKeys(entries) ==
    \A i, j \in 1..Len(entries) :
        (entries[i][HashKey] = entries[j][HashKey]
            /\ entries[i][RangeKey] = entries[j][RangeKey]) => i = j
SameKey(r, e) == r[HashKey] = e[HashKey] /\ r[RangeKey] = e[RangeKey]

\* C17: a write_batch(entries) of a bound client with entries of pairwise
\* distinct keys either returns, and then every entry is in the table and
\* is the only item under its key, or raises the store's error after one
\* write_batch call, and then for some number k of whole chunks, smaller
\* than the number of chunks, the entries of the first k chunks are in the
\* table, no later entry was added, and the table differs from what it was
\* only by entries.
C17_WriteBatch ==
    [][(pc = "idle" /\ pc' = "idle" /\ table # None /\ calls' # <<>>
            /\ LastCall' = <<"write_batch", table>>
            /\ ret'.op = "write_batch" /\ UniqueKeys(ret'.arg))
        => LET entries == ret'.arg
               old == store[table].items
               new == store'[table].items
           IN /\ table' = table
              /\ Len(calls') = 1
              /\ \A r \in new \ old : \E i \in 1..Len(entries) : entries[i] = r
              /\ \A r \in old \ new :
                    \E i \in 1..Len(entries) : SameKey(r, entries[i])
              /\ IF ret'.out = "return"
                 THEN /\ answer' \in {"ok", NoAnswer}
                      /\ \A i \in 1..Len(entries) :
                            {r \in new : SameKey(r, entries[i])}
                                = {entries[i]}
                 ELSE /\ ret'.out = "ClientError"
                      /\ ret'.val = answer'
                      /\ answer' \notin {"ok", NoAnswer}
                      /\ \E k \in 0..(NumChunks(entries) - 1) :
                            \A i \in 1..Len(entries) :
                               IF i <= k * FlushAmount
                               THEN entries[i] \in new
                               ELSE entries[i] \in new => entries[i] \in old
      ]_vars

C17_Witness ==
    /\ pc = "idle"
    /\ ret.op = "write_batch"
    /\ ret.out = "ClientError"
    /\ Len(ret.arg) = 2
    /\ UniqueKeys(ret.arg)
    /\ table # None
    /\ ret.arg[1] \in store[table].items
    /\ ret.arg[2] \notin store[table].items

\* C18: every call of batch_get_item after the first asks for the
\* UnprocessedKeys of the response before it; every sleep comes after a
\* response, and once the function has returned there is one sleep fewer
\* than calls: none follows the last response.
C18_RetryRequests ==
    /\ \A i \in 2..Len(requested) :
          /\ i - 1 <= Len(responses)
          /\ requested[i] = responses[i - 1].UnprocessedKeys
    /\ Len(sleeps) <= Len(responses)
    /\ gpc = "done" => Len(sleeps) = Len(requested) - 1

C18_Witness ==
    /\ gpc = "done"
    /\ Len(requested) = max_tries
    /\ Len(sleeps) = max_tries - 1
    /\ requested[2] # requested[1]
    /\ DOMAIN responses[max_tries].UnprocessedKeys # {}

\* the delays the claim allows
PowersOfTwo == {1, 2, 4, 8, 16, 32}

\* C19: do_batch_get always ends; it raises only when the store (or the
\* unbound global) gave no response to the last call, otherwise it returns;
\* at no time have more than 5 calls been made, is tries above 5, or is
\* sleepy_time anything but a power of two from 1 to 32.
C19_Terminates ==
    /\ <>(gpc \in {"done", "raised"})
    /\ [](/\ Len(requested) <= 5
          /\ tries <= 5
          /\ sleepy_time \in PowersOfTwo)
    /\ [](gpc = "raised" => Len(responses) < Len(requested) \/ ~dynamodb)

C19_Witness ==
    /\ gpc = "done"
    /\ Len(responses) = 5
    /\ tries = 5
    /\ sleepy_time = 16

\* a step of the library's direct caller that ends a call of method op (and
\* is not the service activating a table)
EndsCall(op) ==
    /\ mpc = "driver"
    /\ pc = "idle"
    /\ pc' = "idle"
    /\ Len(calls') = 1
    /\ calls'[1][1] = op
    /\ ret'.op = op
    /\ \A n \in TableNames :
          ~(store[n].status = "CREATING" /\ store'[n].status = "ACTIVE")

\* C20: a call exists(name) on a client binds the handle to name when it
\* returns True and leaves the handle as it was when it returns False or
\* raises; a write_batch, query_table or delete_table of a bound client
\* sends its request to the table the handle names.
C20_ExistsHandle ==
    [][/\ EndsCall("exists")
          => IF ret'.out = "return" /\ ret'.val = TRUE
             THEN table' = calls'[1][2]
             ELSE table' = table
       /\ \A op \in {"write_batch", "query_table", "delete_table"} :
             EndsCall(op) => calls'[1][2] = table
      ]_vars

\* exists(B) returned False on a client bound to another table A
C20_Witness ==
    /\ mpc = "driver"
    /\ pc = "idle"
    /\ calls = <<<<"exists", "other", "False">>>>
    /\ ret = Ret("exists", "other", "return", FALSE)
    /\ table = dt_name
    /\ store[dt_name].status = "ACTIVE"

====
